---- MODULE Spec2Model ----
(***************************************************************************)
(* Verification model of examples of python_for_go_java:                  *)
(*   07_concurrency/examples/threading_example.py  (worker pool)          *)
(*   07_concurrency/examples/asyncio_example.py    (fetch pipeline)       *)
(*   05_oop/examples/library_system.py             (Library)              *)
(*   oop/bank_account.py                           (Bank)                 *)
(***************************************************************************)
EXTENDS Integers, Sequences, FiniteSets, TLC

(***************************************************************************)
(* Bounds of the model.                                                    *)
(***************************************************************************)
NumWorkers == 2
MaxTasks == 2
NumUrls == 2
MaxTicks == 2
NumItems == 2
NumItemIds == 2
NumLibUsers == 3
NumCards == 2
MaxHeld == 2
NumAccounts == 2
MaxAmount == 1
MaxBalance == 2
MaxHistory == 3

Workers == 1..NumWorkers
TaskIds == 1..MaxTasks
Urls == 1..NumUrls
LibItems == 1..NumItems
ItemIds == 1..NumItemIds
LibUsers == 1..NumLibUsers
Cards == 1..NumCards
AcctIds == 1..NumAccounts

\* Task.result before processing: None.  A written result is the name of the
\* worker that wrote it, a number of Workers.
NoResult == 0

(***************************************************************************)
(* State of the worker pool.                                               *)
(*   queue, unfinished : queue.Queue's deque and unfinished_tasks          *)
(*   nPut              : number of Task objects created and put            *)
(*   result[t]         : Task.result                                       *)
(*   value, lock       : ThreadSafeCounter._value, ._lock (0 = free)       *)
(*   running[w]        : Worker.running                                    *)
(*   wpc[w]            : position of worker w's thread                     *)
(*   held[w], tmp[w]   : run()'s local `task`; the value loaded by `+= 1`  *)
(*   awaitState        : the client's task_queue.join() call               *)
(*   joined            : workers whose Thread.join() has returned          *)
(* History (written, never read by the program):                           *)
(*   takers[t] : workers that dequeued t     procCnt[t] : results written  *)
(*   doneCnt[t]: task_done calls for t       incCnt[t]  : increments for t *)
(*   releasedAt: unfinished count seen when join() was released (-1: not)  *)
(*   polledEmpty[w] : w's poll timed out while its flag was still true     *)
(*   raisedIn[w]    : the processing of a task raised in w                 *)
(*   pollsAfterStop[w] : polls of the queue w began after stop() on w      *)
(***************************************************************************)
VARIABLES queue, unfinished, nPut, result, value, lock,
          running, wpc, held, tmp, awaitState, joined,
          takers, procCnt, doneCnt, incCnt, releasedAt,
          polledEmpty, raisedIn, pollsAfterStop

poolState == <<queue, unfinished, nPut, result, value, lock,
               running, wpc, held, tmp, awaitState, joined>>
poolHist == <<takers, procCnt, doneCnt, incCnt, releasedAt,
              polledEmpty, raisedIn, pollsAfterStop>>
poolVars == <<poolState, poolHist>>

(***************************************************************************)
(* State of the asyncio program, asyncio.run(run_with_timeout()).          *)
(*   suppc      : position of run_with_timeout (the supervisor)            *)
(*   outcome    : Running, or how wait_for(main(), 10.0) ended             *)
(*   mainpc     : the task wait_for makes of main()                        *)
(*   mainCancelReq, bgCancelReq, fcancel[i], pcancel[i] : Task.cancel() was *)
(*                called on the task (it stays set once delivered)         *)
(*   session    : the aiohttp.ClientSession of fetch_all_urls              *)
(*   fetchAll   : the call fetch_all_urls(urls)                            *)
(*   fpc[i], fres[i] : the task gather makes of fetch_url(session, urls[i]) *)
(*                and the ApiResult it returned (url 0: none yet)          *)
(*   results    : the list fetch_all_urls returned                         *)
(*   ppc[i]     : the task gather makes of process_api_result(results[i])  *)
(*   bgpc, bgTicks : the task of periodic_task(2.0); its loop rounds       *)
(*   loop       : the event loop of asyncio.run: running, shutdown, closed *)
(*   retval     : what run_with_timeout() handed to its caller: "unset"    *)
(*                while it runs or when it raised, else the value returned *)
(* History:                                                                *)
(*   extCancelled : the supervisor's task was cancelled from outside       *)
(*   raisedStage  : the stage of main() an exception escaped from          *)
(*   deadlinePassed : the timer released wait_for with main() unfinished   *)
(*   fetchOrder   : the indices of the requests, in the order in which      *)
(*                  their fetch_url returned                                *)
(***************************************************************************)
VARIABLES suppc, outcome, mainpc, mainCancelReq, session, fetchAll,
          fpc, fcancel, fres, results, ppc, pcancel,
          bgpc, bgCancelReq, bgTicks, loop, extCancelled, raisedStage,
          deadlinePassed, retval, fetchOrder

asyncVars == <<suppc, outcome, mainpc, mainCancelReq, session, fetchAll,
               fpc, fcancel, fres, results, ppc, pcancel,
               bgpc, bgCancelReq, bgTicks, loop, extCancelled, raisedStage,
               deadlinePassed, retval, fetchOrder>>

(***************************************************************************)
(* A thread that reads the counter (main() prints counter.value):          *)
(*   lastRead : the value the latest read of counter.value returned        *)
(* History:                                                                *)
(*   readIncs : the number of increment() calls completed at that read     *)
(***************************************************************************)
VARIABLES lastRead, readIncs

readVars == <<lastRead, readIncs>>

(***************************************************************************)
(* State of a Library (src/05_oop/examples/library_system.py).             *)
(* Item objects are LibItems, user objects LibUsers; 0 stands for no       *)
(* object.                                                                 *)
(*   item_id[o], library_card[u] : the key attribute of each object, 0     *)
(*                while the object has not been constructed                *)
(*   items[k], users[c] : the dicts Library.items and Library.users        *)
(*   userKeys   : the keys of Library.users in insertion order (the order  *)
(*                in which users.values() iterates)                        *)
(*   status[o], due_date[o] : LibraryItem._status and ._due_date           *)
(*   checked_out_items[u] : LibraryUser.checked_out_items, a list          *)
(***************************************************************************)
VARIABLES item_id, library_card, items, users, userKeys,
          status, due_date, checked_out_items

libVars == <<item_id, library_card, items, users, userKeys,
             status, due_date, checked_out_items>>

(***************************************************************************)
(* State of the bank (oop/bank_account.py).                                *)
(*   accounts        : the keys of Bank._accounts                          *)
(*   balance[n]      : BankAccount.balance of the account with number n    *)
(*   transactions[n] : its BankAccount._transactions                       *)
(*   call            : the last call made on the bank and how it ended     *)
(***************************************************************************)
VARIABLES accounts, balance, transactions, call

bankVars == <<accounts, balance, transactions, call>>

vars == <<poolVars, asyncVars, readVars, libVars, bankVars>>

PoolInit ==
    /\ queue = << >>
    /\ unfinished = 0
    /\ nPut = 0
    /\ result = [t \in TaskIds |-> NoResult]
    /\ value = 0
    /\ lock = 0
    /\ running = [w \in Workers |-> TRUE]
    /\ wpc = [w \in Workers |-> "init"]
    /\ held = [w \in Workers |-> 0]
    /\ tmp = [w \in Workers |-> 0]
    /\ awaitState = "none"
    /\ joined = {}
    /\ takers = [t \in TaskIds |-> {}]
    /\ procCnt = [t \in TaskIds |-> 0]
    /\ doneCnt = [t \in TaskIds |-> 0]
    /\ incCnt = [t \in TaskIds |-> 0]
    /\ releasedAt = -1
    /\ polledEmpty = [w \in Workers |-> FALSE]
    /\ raisedIn = [w \in Workers |-> FALSE]
    /\ pollsAfterStop = [w \in Workers |-> 0]

(***************************************************************************)
(* The client of the pool: the calls main() makes on the queue and on the  *)
(* workers.  main() makes them in one order: puts, starts, queue join,     *)
(* stops, joins.  The client here may make the same calls in any order one *)
(* thread can, so that stop() with tasks still queued and join() on an     *)
(* idle pool are covered too.  It submits nothing once it waits.           *)
(***************************************************************************)

\* A put that refuses the task while no worker thread has been started.
ClientPut_RequireStarted ==
    /\ awaitState = "none"
    /\ nPut < MaxTasks
    /\ nPut' = nPut + 1
    /\ IF \A w \in Workers : wpc[w] = "init"
       THEN UNCHANGED <<queue, unfinished>>
       ELSE queue' = Append(queue, nPut + 1) /\ unfinished' = unfinished + 1
    /\ UNCHANGED <<result, value, lock, running, wpc, held, tmp, awaitState, joined>>
    /\ UNCHANGED poolHist
    /\ UNCHANGED <<asyncVars, readVars, libVars, bankVars>>

\* task_queue.put(task): Queue.put appends and counts the task as unfinished.
\* The queue is unbounded and knows nothing of the workers: put succeeds
\* whether or not a thread has been started.
ClientPut ==
    /\ awaitState = "none"
    /\ nPut < MaxTasks
    /\ nPut' = nPut + 1
    /\ queue' = Append(queue, nPut + 1)
    /\ unfinished' = unfinished + 1
    /\ UNCHANGED <<result, value, lock, running, wpc, held, tmp, awaitState, joined>>
    /\ UNCHANGED poolHist
    /\ UNCHANGED <<asyncVars, readVars, libVars, bankVars>>

\* `for worker in workers: worker.start()`: the thread begins run().  The
\* loops over `workers` take the workers in list order.
ClientStart(w) ==
    /\ awaitState # "blocked"
    /\ wpc[w] = "init"
    /\ \A v \in Workers : v < w => wpc[v] # "init"
    /\ wpc' = [wpc EXCEPT ![w] = "check"]
    /\ UNCHANGED <<queue, unfinished, nPut, result, value, lock,
                   running, held, tmp, awaitState, joined>>
    /\ UNCHANGED poolHist
    /\ UNCHANGED <<asyncVars, readVars, libVars, bankVars>>

\* A join() that waits for a notification before it looks at the count.
ClientAwaitCall_WaitFirst ==
    /\ awaitState = "none"
    /\ awaitState' = "blocked"
    /\ UNCHANGED <<queue, unfinished, nPut, result, value, lock,
                   running, wpc, held, tmp, joined>>
    /\ UNCHANGED poolHist
    /\ UNCHANGED <<asyncVars, readVars, libVars, bankVars>>

\* task_queue.join() is called.  Queue.join takes the queue's mutex and runs
\* `while self.unfinished_tasks: self.all_tasks_done.wait()`: at a count of
\* zero it returns without waiting, otherwise the client blocks in wait().
ClientAwaitCall ==
    /\ awaitState = "none"
    /\ IF unfinished = 0
       THEN awaitState' = "returned" /\ releasedAt' = unfinished
       ELSE awaitState' = "blocked" /\ releasedAt' = releasedAt
    /\ UNCHANGED <<queue, unfinished, nPut, result, value, lock,
                   running, wpc, held, tmp, joined>>
    /\ UNCHANGED <<takers, procCnt, doneCnt, incCnt, polledEmpty, raisedIn,
                   pollsAfterStop>>
    /\ UNCHANGED <<asyncVars, readVars, libVars, bankVars>>

\* A release of join() that looks at the queue's contents instead of the
\* unfinished count.
ClientAwaitReturn_QueueEmpty ==
    /\ awaitState = "blocked"
    /\ queue = << >>
    /\ awaitState' = "returned"
    /\ releasedAt' = unfinished
    /\ UNCHANGED <<queue, unfinished, nPut, result, value, lock,
                   running, wpc, held, tmp, joined>>
    /\ UNCHANGED <<takers, procCnt, doneCnt, incCnt, polledEmpty, raisedIn,
                   pollsAfterStop>>
    /\ UNCHANGED <<asyncVars, readVars, libVars, bankVars>>

\* The blocked task_queue.join() returns: task_done() notifies
\* all_tasks_done at a count of zero, the waiter wakes and its `while
\* self.unfinished_tasks` ends.
ClientAwaitReturn ==
    /\ awaitState = "blocked"
    /\ unfinished = 0
    /\ awaitState' = "returned"
    /\ releasedAt' = unfinished
    /\ UNCHANGED <<queue, unfinished, nPut, result, value, lock,
                   running, wpc, held, tmp, joined>>
    /\ UNCHANGED <<takers, procCnt, doneCnt, incCnt, polledEmpty, raisedIn,
                   pollsAfterStop>>
    /\ UNCHANGED <<asyncVars, readVars, libVars, bankVars>>

\* `for worker in workers: worker.stop()`: self.running = False.
ClientStop(w) ==
    /\ awaitState # "blocked"
    /\ running[w]
    /\ \A v \in Workers : v < w => ~running[v]
    /\ running' = [running EXCEPT ![w] = FALSE]
    /\ UNCHANGED <<queue, unfinished, nPut, result, value, lock,
                   wpc, held, tmp, awaitState, joined>>
    /\ UNCHANGED poolHist
    /\ UNCHANGED <<asyncVars, readVars, libVars, bankVars>>

Terminated(w) == wpc[w] \in {"exited", "dead"}

\* A join that returns without waiting for the thread to end.
ClientJoin_NoWait(w) ==
    /\ awaitState # "blocked"
    /\ wpc[w] # "init"
    /\ w \notin joined
    /\ \A v \in Workers : v < w => v \in joined
    /\ joined' = joined \cup {w}
    /\ UNCHANGED <<queue, unfinished, nPut, result, value, lock,
                   running, wpc, held, tmp, awaitState>>
    /\ UNCHANGED poolHist
    /\ UNCHANGED <<asyncVars, readVars, libVars, bankVars>>

\* `for worker in workers: worker.join()`: Thread.join returns once run() has
\* ended, by return or by an uncaught exception.
ClientJoin(w) ==
    /\ awaitState # "blocked"
    /\ Terminated(w)
    /\ w \notin joined
    /\ \A v \in Workers : v < w => v \in joined
    /\ joined' = joined \cup {w}
    /\ UNCHANGED <<queue, unfinished, nPut, result, value, lock,
                   running, wpc, held, tmp, awaitState>>
    /\ UNCHANGED poolHist
    /\ UNCHANGED <<asyncVars, readVars, libVars, bankVars>>

Client ==
    \/ ClientPut
    \/ ClientAwaitCall
    \/ ClientAwaitReturn
    \/ \E w \in Workers : ClientStart(w)
    \/ \E w \in Workers : ClientStop(w)
    \/ \E w \in Workers : ClientJoin(w)

(***************************************************************************)
(* Worker.run, one worker thread.  Thread positions:                       *)
(*   init -> check -> get -> process -> task_done -> load -> store -> check *)
(*   check -> exited (flag false);  any uncaught exception -> dead          *)
(***************************************************************************)

\* Attributes of the class queue.Queue, the only name the module imports
\* from queue (`from queue import Queue`).  The exception class Empty is an
\* attribute of the module queue, not of the class.
QueueClassAttributes ==
    {"put", "get", "task_done", "join", "qsize", "empty", "full",
     "put_nowait", "get_nowait"}

\* The handler `except Queue.Empty: continue` meeting exception exc raised in
\* the try body: Python evaluates the expression Queue.Empty first, and an
\* attribute the class lacks raises AttributeError out of run().  The value is
\* "continue" or the exception that leaves run().
ExceptQueueEmpty(exc) ==
    IF "Empty" \in QueueClassAttributes
    THEN IF exc = "Empty" THEN "continue" ELSE exc
    ELSE "AttributeError"

AfterHandler(exc) == IF ExceptQueueEmpty(exc) = "continue" THEN "check" ELSE "dead"

\* `while self.running:`
WorkerCheck(w) ==
    /\ wpc[w] = "check"
    /\ wpc' = [wpc EXCEPT ![w] = IF running[w] THEN "get" ELSE "exited"]
    /\ UNCHANGED <<queue, unfinished, nPut, result, value, lock,
                   running, held, tmp, awaitState, joined>>
    /\ UNCHANGED poolHist
    /\ UNCHANGED <<asyncVars, readVars, libVars, bankVars>>

\* A get that reads the head of the queue and leaves it there.
WorkerGet_Peek(w) ==
    /\ wpc[w] = "get"
    /\ queue # << >>
    /\ held' = [held EXCEPT ![w] = Head(queue)]
    /\ wpc' = [wpc EXCEPT ![w] = "process"]
    /\ takers' = [takers EXCEPT ![Head(queue)] = @ \cup {w}]
    /\ pollsAfterStop' = [pollsAfterStop EXCEPT ![w] = IF running[w] THEN @ ELSE @ + 1]
    /\ UNCHANGED <<queue, unfinished, nPut, result, value, lock, running, tmp,
                   awaitState, joined>>
    /\ UNCHANGED <<procCnt, doneCnt, incCnt, releasedAt, polledEmpty, raisedIn>>
    /\ UNCHANGED <<asyncVars, readVars, libVars, bankVars>>

\* task = self.task_queue.get(timeout=1.0), a task is there (or arrives
\* within the timeout): the head leaves the queue and becomes w's.
WorkerGet(w) ==
    /\ wpc[w] = "get"
    /\ queue # << >>
    /\ held' = [held EXCEPT ![w] = Head(queue)]
    /\ queue' = Tail(queue)
    /\ wpc' = [wpc EXCEPT ![w] = "process"]
    /\ takers' = [takers EXCEPT ![Head(queue)] = @ \cup {w}]
    /\ pollsAfterStop' = [pollsAfterStop EXCEPT ![w] = IF running[w] THEN @ ELSE @ + 1]
    /\ UNCHANGED <<unfinished, nPut, result, value, lock, running, tmp,
                   awaitState, joined>>
    /\ UNCHANGED <<procCnt, doneCnt, incCnt, releasedAt, polledEmpty, raisedIn>>
    /\ UNCHANGED <<asyncVars, readVars, libVars, bankVars>>

\* A get without timeout: on an empty queue it blocks and never raises.
WorkerEmpty_Blocking(w) ==
    /\ FALSE
    /\ UNCHANGED vars

\* get(timeout=1.0) on a queue that stays empty for the timeout: queue.Empty
\* is raised into the try body and meets the handler.
WorkerEmpty(w) ==
    /\ wpc[w] = "get"
    /\ queue = << >>
    /\ wpc' = [wpc EXCEPT ![w] = AfterHandler("Empty")]
    /\ polledEmpty' = [polledEmpty EXCEPT ![w] = @ \/ running[w]]
    /\ pollsAfterStop' = [pollsAfterStop EXCEPT ![w] = IF running[w] THEN @ ELSE @ + 1]
    /\ UNCHANGED <<queue, unfinished, nPut, result, value, lock,
                   running, held, tmp, awaitState, joined>>
    /\ UNCHANGED <<takers, procCnt, doneCnt, incCnt, releasedAt, raisedIn>>
    /\ UNCHANGED <<asyncVars, readVars, libVars, bankVars>>

\* A _process_task that does its work and forgets to store the result.
WorkerProcess_NoResult(w) ==
    /\ wpc[w] = "process"
    /\ wpc' = [wpc EXCEPT ![w] = "task_done"]
    /\ UNCHANGED <<queue, unfinished, nPut, result, value, lock,
                   running, held, tmp, awaitState, joined>>
    /\ UNCHANGED poolHist
    /\ UNCHANGED <<asyncVars, readVars, libVars, bankVars>>

\* self._process_task(task): print, sleep, task.result = f"Processed ... by
\* {self.name}".  Either the call returns, or one of its statements raises
\* (print on a closed stream, a payload whose formatting fails);
\* _process_task catches nothing, so the exception reaches the handler of
\* run().
WorkerProcess(w) ==
    /\ wpc[w] = "process"
    /\ \/ /\ result' = [result EXCEPT ![held[w]] = w]
          /\ procCnt' = [procCnt EXCEPT ![held[w]] = @ + 1]
          /\ wpc' = [wpc EXCEPT ![w] = "task_done"]
          /\ UNCHANGED <<held, raisedIn>>
       \/ /\ raisedIn' = [raisedIn EXCEPT ![w] = TRUE]
          /\ wpc' = [wpc EXCEPT ![w] = AfterHandler("Exception")]
          /\ held' = [held EXCEPT ![w] = 0]
          /\ UNCHANGED <<result, procCnt>>
    /\ UNCHANGED <<queue, unfinished, nPut, value, lock,
                   running, tmp, awaitState, joined>>
    /\ UNCHANGED <<takers, doneCnt, incCnt, releasedAt, polledEmpty, pollsAfterStop>>
    /\ UNCHANGED <<asyncVars, readVars, libVars, bankVars>>

\* A loop that marks the task done and goes on without counting it.
WorkerTaskDone_NoIncrement(w) ==
    /\ wpc[w] = "task_done"
    /\ unfinished' = unfinished - 1
    /\ doneCnt' = [doneCnt EXCEPT ![held[w]] = @ + 1]
    /\ held' = [held EXCEPT ![w] = 0]
    /\ wpc' = [wpc EXCEPT ![w] = "check"]
    /\ UNCHANGED <<queue, nPut, result, value, lock,
                   running, tmp, awaitState, joined>>
    /\ UNCHANGED <<takers, procCnt, incCnt, releasedAt, polledEmpty, raisedIn,
                   pollsAfterStop>>
    /\ UNCHANGED <<asyncVars, readVars, libVars, bankVars>>

\* self.task_queue.task_done(): Queue.task_done lowers unfinished_tasks.
\* The increment of the counter comes after it.
WorkerTaskDone(w) ==
    /\ wpc[w] = "task_done"
    /\ unfinished' = unfinished - 1
    /\ doneCnt' = [doneCnt EXCEPT ![held[w]] = @ + 1]
    /\ wpc' = [wpc EXCEPT ![w] = "load"]
    /\ UNCHANGED <<queue, nPut, result, value, lock,
                   running, held, tmp, awaitState, joined>>
    /\ UNCHANGED <<takers, procCnt, incCnt, releasedAt, polledEmpty, raisedIn,
                   pollsAfterStop>>
    /\ UNCHANGED <<asyncVars, readVars, libVars, bankVars>>

\* An increment that does not take the lock.
WorkerIncLoad_NoLock(w) ==
    /\ wpc[w] = "load"
    /\ tmp' = [tmp EXCEPT ![w] = value]
    /\ wpc' = [wpc EXCEPT ![w] = "store"]
    /\ UNCHANGED <<queue, unfinished, nPut, result, value, lock,
                   running, held, awaitState, joined>>
    /\ UNCHANGED poolHist
    /\ UNCHANGED <<asyncVars, readVars, libVars, bankVars>>

\* self.counter.increment(), first half: `with self._lock:` acquires the lock
\* (waiting while another thread holds it) and `self._value += 1` loads
\* self._value.
WorkerIncLoad(w) ==
    /\ wpc[w] = "load"
    /\ lock = 0
    /\ lock' = w
    /\ tmp' = [tmp EXCEPT ![w] = value]
    /\ wpc' = [wpc EXCEPT ![w] = "store"]
    /\ UNCHANGED <<queue, unfinished, nPut, result, value,
                   running, held, awaitState, joined>>
    /\ UNCHANGED poolHist
    /\ UNCHANGED <<asyncVars, readVars, libVars, bankVars>>

\* increment(), second half: the sum is stored into self._value and the
\* `with` block releases the lock; the loop goes back to its condition.
WorkerIncStore(w) ==
    /\ wpc[w] = "store"
    /\ value' = tmp[w] + 1
    /\ lock' = 0
    /\ incCnt' = [incCnt EXCEPT ![held[w]] = @ + 1]
    /\ held' = [held EXCEPT ![w] = 0]
    /\ tmp' = [tmp EXCEPT ![w] = 0]
    /\ wpc' = [wpc EXCEPT ![w] = "check"]
    /\ UNCHANGED <<queue, unfinished, nPut, result,
                   running, awaitState, joined>>
    /\ UNCHANGED <<takers, procCnt, doneCnt, releasedAt, polledEmpty, raisedIn,
                   pollsAfterStop>>
    /\ UNCHANGED <<asyncVars, readVars, libVars, bankVars>>

\* f[1] + ... + f[n], for the per-task counts of the history.
RECURSIVE SumTo(_, _)
SumTo(f, n) == IF n = 0 THEN 0 ELSE f[n] + SumTo(f, n - 1)

ReadInit ==
    /\ lastRead = 0
    /\ readIncs = 0

\* A value property that adds in the increment a worker has under way.
CounterRead_Dirty ==
    /\ lastRead' = IF \E w \in Workers : wpc[w] = "store" THEN value + 1 ELSE value
    /\ readIncs' = SumTo(incCnt, MaxTasks)
    /\ UNCHANGED <<poolVars, asyncVars, libVars, bankVars>>

\* counter.value: the property returns self._value, one attribute load made
\* without the lock, at any moment of the workers' run.
CounterRead ==
    /\ lastRead' = value
    /\ readIncs' = SumTo(incCnt, MaxTasks)
    /\ UNCHANGED <<poolVars, asyncVars, libVars, bankVars>>

WorkerStep(w) ==
    \/ WorkerCheck(w)
    \/ WorkerGet(w)
    \/ WorkerEmpty(w)
    \/ WorkerProcess(w)
    \/ WorkerTaskDone(w)
    \/ WorkerIncLoad(w)
    \/ WorkerIncStore(w)

(***************************************************************************)
(* asyncio_example.py: the event loop runs one task at a time, from one    *)
(* suspension point (await) to the next; each action below is one such     *)
(* run of one task.  Which task is ready next depends on the network and   *)
(* on the timers, so any ready task may run.                               *)
(* Task positions: none (not created), new (created, not yet run), then    *)
(* the await it is suspended at, then done, failed or cancelled.           *)
(***************************************************************************)

supVars == <<suppc, outcome, extCancelled, deadlinePassed, retval>>
mainVars == <<mainpc, session, fetchAll, results, raisedStage>>
cancelVars == <<mainCancelReq, fcancel, pcancel>>
fetchVars == <<fpc, fres, fetchOrder>>
bgVars == <<bgpc, bgCancelReq, bgTicks>>

\* The value of fres[i] while fetch_url has not returned.
NoApiResult == [url |-> 0, status |-> 0, error |-> FALSE]

AsyncInit ==
    /\ suppc = "init"
    /\ outcome = "Running"
    /\ extCancelled = FALSE
    /\ deadlinePassed = FALSE
    /\ retval = "unset"
    /\ mainpc = "none"
    /\ mainCancelReq = FALSE
    /\ session = "none"
    /\ fetchAll = "none"
    /\ results = << >>
    /\ raisedStage = "none"
    /\ fpc = [i \in Urls |-> "none"]
    /\ fcancel = [i \in Urls |-> FALSE]
    /\ fres = [i \in Urls |-> NoApiResult]
    /\ fetchOrder = << >>
    /\ ppc = [i \in Urls |-> "none"]
    /\ pcancel = [i \in Urls |-> FALSE]
    /\ bgpc = "none"
    /\ bgCancelReq = FALSE
    /\ bgTicks = 0
    /\ loop = "running"

Live(pc) == pc \notin {"none", "done", "failed", "cancelled"}

\* What the transport does with one request: a 200 with a JSON body, a
\* non-success status with a JSON body, a body response.json() rejects, or a
\* transport error raised by session.get.
FetchOutcomes == {"ok", "status", "badbody", "transport"}

\* fetch_url(session, url) for the request of index i: the ApiResult of the
\* try body, or the one built by `except Exception`.
FetchUrl(i, o) ==
    IF o \in {"ok", "status"}
    THEN [url |-> i, status |-> IF o = "ok" THEN 200 ELSE 404, error |-> FALSE]
    ELSE [url |-> i, status |-> 500, error |-> TRUE]

\* Task.cancel() on the task of main(): the request is noted, and passed to
\* the gather future main() awaits, which passes it to its children unless it
\* is done already (all children done, or one has raised).
CancelMain ==
    /\ mainCancelReq' = TRUE
    /\ fcancel' = [i \in Urls |-> fcancel[i] \/ (mainpc = "fetching" /\ Live(fpc[i]))]
    /\ pcancel' = [i \in Urls |->
                     pcancel[i] \/ /\ mainpc = "processing"
                                   /\ \A j \in Urls : ppc[j] # "failed"
                                   /\ Live(ppc[i])]

\* The `finally:` of run_with_timeout up to its await:
\* background_task.cancel(); await background_task.
Finally ==
    /\ bgCancelReq' = TRUE
    /\ suppc' = "awaitBg"
    /\ UNCHANGED <<bgpc, bgTicks>>

\* background_task = asyncio.create_task(periodic_task(2.0));
\* await asyncio.wait_for(main(), timeout=10.0): wait_for makes a task of
\* main(), arms the timer and awaits.
SupStart ==
    /\ suppc = "init"
    /\ suppc' = "waitMain"
    /\ bgpc' = "new"
    /\ mainpc' = "new"
    /\ UNCHANGED <<outcome, extCancelled, deadlinePassed, retval, session, fetchAll, results, raisedStage,
                   cancelVars, fetchVars, ppc, bgCancelReq, bgTicks, loop>>
    /\ UNCHANGED <<poolVars, readVars, libVars, bankVars>>

\* wait_for resumes with main() finished: `if fut.done(): return fut.result()`.
SupMainDone ==
    /\ suppc = "waitMain"
    /\ mainpc = "done"
    /\ outcome' = "Completed"
    /\ Finally
    /\ UNCHANGED <<extCancelled, deadlinePassed, retval, mainVars, cancelVars, fetchVars, ppc, loop>>
    /\ UNCHANGED <<poolVars, readVars, libVars, bankVars>>

\* wait_for resumes with an exception of main(): fut.result() raises it, no
\* handler of run_with_timeout matches, the finally block runs.
SupMainFailed ==
    /\ suppc = "waitMain"
    /\ mainpc = "failed"
    /\ outcome' = "Failed"
    /\ Finally
    /\ UNCHANGED <<extCancelled, deadlinePassed, retval, mainVars, cancelVars, fetchVars, ppc, loop>>
    /\ UNCHANGED <<poolVars, readVars, libVars, bankVars>>

\* The 10 s timer releases wait_for while main() is unfinished:
\* _cancel_and_wait(fut) cancels the task of main() and awaits its end.
SupDeadline ==
    /\ suppc = "waitMain"
    /\ Live(mainpc)
    /\ CancelMain
    /\ suppc' = "cancelWaitMain"
    /\ deadlinePassed' = TRUE
    /\ UNCHANGED <<outcome, extCancelled, retval, mainVars, fetchVars, ppc, bgVars, loop>>
    /\ UNCHANGED <<poolVars, readVars, libVars, bankVars>>

\* A wait_for that cancels main() and raises TimeoutError without awaiting
\* the end of the cancelled task.
SupMainCancelled_NoWait ==
    /\ suppc = "cancelWaitMain"
    /\ outcome' = "TimedOut"
    /\ Finally
    /\ UNCHANGED <<extCancelled, deadlinePassed, retval, mainVars, cancelVars, fetchVars, ppc, loop>>
    /\ UNCHANGED <<poolVars, readVars, libVars, bankVars>>

\* The cancelled task of main() has ended: fut.result() raises
\* CancelledError, wait_for raises TimeoutError, `except asyncio.TimeoutError`
\* prints and the finally block runs.
SupMainCancelled ==
    /\ suppc = "cancelWaitMain"
    /\ ~Live(mainpc)
    /\ outcome' = CASE mainpc = "cancelled" -> "TimedOut"
                    [] mainpc = "done" -> "Completed"
                    [] OTHER -> "Failed"
    /\ Finally
    /\ UNCHANGED <<extCancelled, deadlinePassed, retval, mainVars, cancelVars, fetchVars, ppc, loop>>
    /\ UNCHANGED <<poolVars, readVars, libVars, bankVars>>

\* The supervisor's own task is cancelled (asyncio.run cancels it on Ctrl-C)
\* while wait_for awaits: `except CancelledError:` returns fut.result() if
\* main() is finished, else cancels main(), awaits its end and re-raises.
SupCancelWhileWaiting ==
    /\ suppc = "waitMain"
    /\ ~extCancelled
    /\ extCancelled' = TRUE
    /\ UNCHANGED <<deadlinePassed, retval>>
    /\ \/ /\ ~Live(mainpc)
          /\ outcome' = IF mainpc = "done" THEN "Completed" ELSE "Failed"
          /\ Finally
          /\ UNCHANGED cancelVars
       \/ /\ Live(mainpc)
          /\ CancelMain
          /\ suppc' = "cancelWaitMainX"
          /\ UNCHANGED <<outcome, bgVars>>
    /\ UNCHANGED <<mainVars, fetchVars, ppc, loop>>
    /\ UNCHANGED <<poolVars, readVars, libVars, bankVars>>

\* ... and main() has ended: `raise` re-raises CancelledError, which passes
\* `except asyncio.TimeoutError`; the finally block runs.
SupMainCancelledX ==
    /\ suppc = "cancelWaitMainX"
    /\ ~Live(mainpc)
    /\ outcome' = "Cancelled"
    /\ Finally
    /\ UNCHANGED <<extCancelled, deadlinePassed, retval, mainVars, cancelVars, fetchVars, ppc, loop>>
    /\ UNCHANGED <<poolVars, readVars, libVars, bankVars>>

\* The supervisor's task is cancelled inside _cancel_and_wait (after the
\* deadline): its `await waiter` raises CancelledError at once, and the
\* finally block runs with main() still unwinding.
SupCancelWhileCancelling ==
    /\ suppc = "cancelWaitMain"
    /\ ~extCancelled
    /\ extCancelled' = TRUE
    /\ outcome' = "Cancelled"
    /\ Finally
    /\ UNCHANGED <<deadlinePassed, retval>>
    /\ UNCHANGED <<mainVars, cancelVars, fetchVars, ppc, loop>>
    /\ UNCHANGED <<poolVars, readVars, libVars, bankVars>>

\* A finally block that awaits asyncio.shield(background_task): a
\* cancellation of the supervisor is not passed on and ends the await at once.
SupCancelWhileAwaitBg_Shielded ==
    /\ suppc = "awaitBg"
    /\ ~extCancelled
    /\ extCancelled' = TRUE
    /\ suppc' = "cancelled"
    /\ outcome' = "Cancelled"
    /\ UNCHANGED <<deadlinePassed, retval, mainVars, cancelVars, fetchVars, ppc, bgVars, loop>>
    /\ UNCHANGED <<poolVars, readVars, libVars, bankVars>>

\* The supervisor's task is cancelled at `await background_task`: the
\* request goes to the awaited task, which is being cancelled already.
SupCancelWhileAwaitBg ==
    /\ suppc = "awaitBg"
    /\ ~extCancelled
    /\ extCancelled' = TRUE
    /\ UNCHANGED <<suppc, outcome, deadlinePassed, retval, mainVars, cancelVars, fetchVars, ppc, bgVars, loop>>
    /\ UNCHANGED <<poolVars, readVars, libVars, bankVars>>

\* A run_with_timeout without its `except asyncio.TimeoutError:` clause: the
\* TimeoutError of wait_for goes on to the caller.
EndOf_NoHandler(o) ==
    CASE o = "Completed" -> "returned"
      [] o = "Cancelled" -> "cancelled"
      [] OTHER -> "raised"

\* How run_with_timeout ends after its finally block, by the way wait_for
\* ended: it falls off its end when wait_for returned or when `except
\* asyncio.TimeoutError` caught the timeout; another exception goes on.
EndOf(o) ==
    CASE o \in {"Completed", "TimedOut"} -> "returned"
      [] o = "Cancelled" -> "cancelled"
      [] OTHER -> "raised"

\* The value a returning run_with_timeout hands back: it has no return
\* statement, on either path, so the value is None.
ReturnValue(o) == "None"

\* A finally block that cancels the background task and does not await it.
SupBgDone_NoAwait ==
    /\ suppc = "awaitBg"
    /\ suppc' = EndOf(outcome)
    /\ retval' = IF EndOf(outcome) = "returned" THEN ReturnValue(outcome) ELSE retval
    /\ UNCHANGED <<outcome, extCancelled, deadlinePassed, mainVars, cancelVars, fetchVars, ppc,
                   bgVars, loop>>
    /\ UNCHANGED <<poolVars, readVars, libVars, bankVars>>

\* `await background_task` raises CancelledError, `except
\* asyncio.CancelledError` prints; run_with_timeout returns None, or the
\* exception that entered the finally block goes on.
SupBgDone ==
    /\ suppc = "awaitBg"
    /\ bgpc = "cancelled"
    /\ suppc' = EndOf(outcome)
    /\ retval' = IF EndOf(outcome) = "returned" THEN ReturnValue(outcome) ELSE retval
    /\ UNCHANGED <<outcome, extCancelled, deadlinePassed, mainVars, cancelVars, fetchVars, ppc,
                   bgVars, loop>>
    /\ UNCHANGED <<poolVars, readVars, libVars, bankVars>>

Supervisor ==
    \/ SupStart
    \/ SupMainDone
    \/ SupMainFailed
    \/ SupDeadline
    \/ SupMainCancelled
    \/ SupCancelWhileWaiting
    \/ SupMainCancelledX
    \/ SupCancelWhileCancelling
    \/ SupCancelWhileAwaitBg
    \/ SupBgDone

\* First run of the task of main(): fetch_all_urls(urls) enters `async with
\* aiohttp.ClientSession()`, builds one fetch_url coroutine per url and awaits
\* gather, which makes a task of each.
MainStart ==
    /\ mainpc = "new"
    /\ ~mainCancelReq
    /\ session' = "open"
    /\ fetchAll' = "running"
    /\ fpc' = [i \in Urls |-> "new"]
    /\ mainpc' = "fetching"
    /\ UNCHANGED <<supVars, results, raisedStage, cancelVars, fres, fetchOrder, ppc, bgVars,
                   loop>>
    /\ UNCHANGED <<poolVars, readVars, libVars, bankVars>>

\* A fetch_all_urls that goes on as soon as one request has completed
\* (asyncio.wait with return_when=FIRST_COMPLETED).
MainAfterFetch_FirstCompleted ==
    /\ mainpc = "fetching"
    /\ ~mainCancelReq
    /\ \E i \in Urls : fpc[i] = "done"
    /\ results' = [i \in Urls |-> fres[i]]
    /\ session' = "closed"
    /\ fetchAll' = "returned"
    /\ ppc' = [i \in Urls |-> "new"]
    /\ mainpc' = "processing"
    /\ UNCHANGED <<supVars, raisedStage, cancelVars, fetchVars, bgVars, loop>>
    /\ UNCHANGED <<poolVars, readVars, libVars, bankVars>>

\* A fetch_all_urls that collects the results as the requests complete
\* (asyncio.as_completed) instead of by gather.
MainAfterFetch_CompletionOrder ==
    /\ mainpc = "fetching"
    /\ ~mainCancelReq
    /\ \A i \in Urls : fpc[i] = "done"
    /\ results' = [k \in Urls |-> fres[fetchOrder[k]]]
    /\ session' = "closed"
    /\ fetchAll' = "returned"
    /\ ppc' = [i \in Urls |-> "new"]
    /\ mainpc' = "processing"
    /\ UNCHANGED <<supVars, raisedStage, cancelVars, fetchVars, bgVars, loop>>
    /\ UNCHANGED <<poolVars, readVars, libVars, bankVars>>

\* gather(*tasks) has every child's result: the list is in the order of the
\* arguments.  The `async with` block closes the session, fetch_all_urls
\* returns, and main() builds one process_api_result per result and awaits
\* the second gather.
MainAfterFetch ==
    /\ mainpc = "fetching"
    /\ ~mainCancelReq
    /\ \A i \in Urls : fpc[i] = "done"
    /\ results' = [i \in Urls |-> fres[i]]
    /\ session' = "closed"
    /\ fetchAll' = "returned"
    /\ ppc' = [i \in Urls |-> "new"]
    /\ mainpc' = "processing"
    /\ UNCHANGED <<supVars, raisedStage, cancelVars, fetchVars, bgVars, loop>>
    /\ UNCHANGED <<poolVars, readVars, libVars, bankVars>>

\* The second gather has every child's result: main() returns None.
MainAfterProcess ==
    /\ mainpc = "processing"
    /\ ~mainCancelReq
    /\ \A i \in Urls : ppc[i] = "done"
    /\ mainpc' = "done"
    /\ UNCHANGED <<supVars, session, fetchAll, results, raisedStage, cancelVars,
                   fetchVars, ppc, bgVars, loop>>
    /\ UNCHANGED <<poolVars, readVars, libVars, bankVars>>

StageRaised ==
    \/ mainpc = "fetching" /\ \E i \in Urls : fpc[i] = "failed"
    \/ mainpc = "processing" /\ \E i \in Urls : ppc[i] = "failed"

\* gather (called without return_exceptions) passes on the first exception
\* of a child at once and leaves the other children running; nothing in
\* fetch_all_urls or main() catches it.
MainGatherRaised ==
    /\ mainpc \in {"fetching", "processing"}
    /\ ~mainCancelReq
    /\ StageRaised
    /\ raisedStage' = mainpc
    /\ session' = IF mainpc = "fetching" THEN "closed" ELSE session
    /\ fetchAll' = IF mainpc = "fetching" THEN "raised" ELSE fetchAll
    /\ mainpc' = "failed"
    /\ UNCHANGED <<supVars, results, cancelVars, fetchVars, ppc, bgVars, loop>>
    /\ UNCHANGED <<poolVars, readVars, libVars, bankVars>>

\* The gather future main() awaits is settled once cancellation was asked:
\* it was done before, or all its children have ended.
StageSettled ==
    \/ mainpc = "new"
    \/ mainpc = "fetching" /\ \A i \in Urls : ~Live(fpc[i])
    \/ mainpc = "processing" /\ \/ \E i \in Urls : ppc[i] = "failed"
                                \/ \A i \in Urls : ~Live(ppc[i])

\* The cancellation reaches the task of main(): CancelledError is raised at
\* its await, unwinds through `async with` (the session is closed) and ends
\* the task as cancelled.  A task cancelled before its first run never runs.
MainCancelled ==
    /\ Live(mainpc)
    /\ mainCancelReq
    /\ StageSettled
    /\ session' = IF mainpc = "fetching" THEN "closed" ELSE session
    /\ fetchAll' = IF mainpc = "fetching" THEN "cancelled" ELSE fetchAll
    /\ mainpc' = "cancelled"
    /\ UNCHANGED <<supVars, results, raisedStage, cancelVars, fetchVars, ppc,
                   bgVars, loop>>
    /\ UNCHANGED <<poolVars, readVars, libVars, bankVars>>

MainTask ==
    \/ MainStart
    \/ MainAfterFetch
    \/ MainAfterProcess
    \/ MainGatherRaised
    \/ MainCancelled

\* fetch_url, first run: start_time is taken, session.get(url) is awaited.
FetchStart(i) ==
    /\ fpc[i] = "new"
    /\ ~fcancel[i]
    /\ fpc' = [fpc EXCEPT ![i] = "io"]
    /\ UNCHANGED <<supVars, mainVars, cancelVars, fres, fetchOrder, ppc, bgVars, loop>>
    /\ UNCHANGED <<poolVars, readVars, libVars, bankVars>>

\* A fetch_url without the `except Exception` clause.
FetchComplete_NoCatch(i) ==
    /\ fpc[i] = "io"
    /\ ~fcancel[i]
    /\ \E o \in FetchOutcomes :
         IF o \in {"ok", "status"}
         THEN /\ fres' = [fres EXCEPT ![i] = FetchUrl(i, o)]
              /\ fpc' = [fpc EXCEPT ![i] = "done"]
         ELSE /\ fres' = fres
              /\ fpc' = [fpc EXCEPT ![i] = "failed"]
    /\ fetchOrder' = Append(fetchOrder, i)
    /\ UNCHANGED <<supVars, mainVars, cancelVars, ppc, bgVars, loop>>
    /\ UNCHANGED <<poolVars, readVars, libVars, bankVars>>

\* fetch_url, the request ends one way or another and the function returns
\* its ApiResult.
FetchComplete(i) ==
    /\ fpc[i] = "io"
    /\ ~fcancel[i]
    /\ \E o \in FetchOutcomes : fres' = [fres EXCEPT ![i] = FetchUrl(i, o)]
    /\ fpc' = [fpc EXCEPT ![i] = "done"]
    /\ fetchOrder' = Append(fetchOrder, i)
    /\ UNCHANGED <<supVars, mainVars, cancelVars, ppc, bgVars, loop>>
    /\ UNCHANGED <<poolVars, readVars, libVars, bankVars>>

\* A fetch_url whose handler is `except BaseException`: the cancellation is
\* caught like a failure and an ApiResult with status 500 is returned.
FetchCancelled_AsError(i) ==
    /\ Live(fpc[i])
    /\ fcancel[i]
    /\ fpc' = [fpc EXCEPT ![i] = "done"]
    /\ fres' = [fres EXCEPT ![i] = FetchUrl(i, "transport")]
    /\ fetchOrder' = Append(fetchOrder, i)
    /\ UNCHANGED <<supVars, mainVars, cancelVars, ppc, bgVars, loop>>
    /\ UNCHANGED <<poolVars, readVars, libVars, bankVars>>

\* CancelledError is raised at fetch_url's await.  It is a BaseException:
\* `except Exception` lets it through and the task ends cancelled.
FetchCancelled(i) ==
    /\ Live(fpc[i])
    /\ fcancel[i]
    /\ fpc' = [fpc EXCEPT ![i] = "cancelled"]
    /\ UNCHANGED <<supVars, mainVars, cancelVars, fres, fetchOrder, ppc, bgVars, loop>>
    /\ UNCHANGED <<poolVars, readVars, libVars, bankVars>>

\* process_api_result, first run: await asyncio.sleep(...).
ProcStart(i) ==
    /\ ppc[i] = "new"
    /\ ~pcancel[i]
    /\ ppc' = [ppc EXCEPT ![i] = "sleep"]
    /\ UNCHANGED <<supVars, mainVars, cancelVars, fetchVars, bgVars, loop>>
    /\ UNCHANGED <<poolVars, readVars, libVars, bankVars>>

\* process_api_result after the sleep: the four prints, then return; or one
\* of the prints raises (process_api_result catches nothing).
ProcComplete(i) ==
    /\ ppc[i] = "sleep"
    /\ ~pcancel[i]
    /\ \E ok \in BOOLEAN : ppc' = [ppc EXCEPT ![i] = IF ok THEN "done" ELSE "failed"]
    /\ UNCHANGED <<supVars, mainVars, cancelVars, fetchVars, bgVars, loop>>
    /\ UNCHANGED <<poolVars, readVars, libVars, bankVars>>

\* CancelledError is raised at process_api_result's await.
ProcCancelled(i) ==
    /\ Live(ppc[i])
    /\ pcancel[i]
    /\ ppc' = [ppc EXCEPT ![i] = "cancelled"]
    /\ UNCHANGED <<supVars, mainVars, cancelVars, fetchVars, bgVars, loop>>
    /\ UNCHANGED <<poolVars, readVars, libVars, bankVars>>

Children ==
    \E i \in Urls :
        \/ FetchStart(i)
        \/ FetchComplete(i)
        \/ FetchCancelled(i)
        \/ ProcStart(i)
        \/ ProcComplete(i)
        \/ ProcCancelled(i)

\* periodic_task, one round of `while True`: print, await asyncio.sleep.
BgTick ==
    /\ bgpc \in {"new", "sleeping"}
    /\ ~bgCancelReq
    /\ bgTicks < MaxTicks
    /\ bgpc' = "sleeping"
    /\ bgTicks' = bgTicks + 1
    /\ UNCHANGED <<supVars, mainVars, cancelVars, fetchVars, ppc, bgCancelReq, loop>>
    /\ UNCHANGED <<poolVars, readVars, libVars, bankVars>>

\* A periodic_task that catches CancelledError inside its loop and goes on
\* with the next round.
BgCancelled_Swallowed ==
    /\ Live(bgpc)
    /\ bgCancelReq
    /\ bgpc' = "sleeping"
    /\ bgCancelReq' = FALSE
    /\ UNCHANGED <<supVars, mainVars, cancelVars, fetchVars, ppc, bgTicks, loop>>
    /\ UNCHANGED <<poolVars, readVars, libVars, bankVars>>

\* CancelledError is raised at periodic_task's await (or the task is
\* cancelled before its first run): the task ends cancelled.
BgCancelled ==
    /\ Live(bgpc)
    /\ bgCancelReq
    /\ bgpc' = "cancelled"
    /\ UNCHANGED <<supVars, mainVars, cancelVars, fetchVars, ppc, bgCancelReq,
                   bgTicks, loop>>
    /\ UNCHANGED <<poolVars, readVars, libVars, bankVars>>

Background == BgTick \/ BgCancelled

SupEnded == suppc \in {"returned", "raised", "cancelled"}

\* asyncio.run(run_with_timeout()), after the supervisor has ended: the
\* runner cancels every task that is not done and lets the loop run them out.
LoopShutdown ==
    /\ loop = "running"
    /\ SupEnded
    /\ loop' = "shutdown"
    /\ mainCancelReq' = (mainCancelReq \/ Live(mainpc))
    /\ fcancel' = [i \in Urls |-> fcancel[i] \/ Live(fpc[i])]
    /\ pcancel' = [i \in Urls |-> pcancel[i] \/ Live(ppc[i])]
    /\ UNCHANGED <<supVars, mainVars, fetchVars, ppc, bgVars>>
    /\ UNCHANGED <<poolVars, readVars, libVars, bankVars>>

\* ... and closes the loop once they have all ended.
LoopClose ==
    /\ loop = "shutdown"
    /\ ~Live(mainpc)
    /\ \A i \in Urls : ~Live(fpc[i]) /\ ~Live(ppc[i])
    /\ loop' = "closed"
    /\ UNCHANGED <<supVars, mainVars, cancelVars, fetchVars, ppc, bgVars>>
    /\ UNCHANGED <<poolVars, readVars, libVars, bankVars>>

EventLoop == LoopShutdown \/ LoopClose

(***************************************************************************)
(* library_system.py: the four operations of Library.  The library is used *)
(* by one thread; each call is one step.  Item and user objects are made   *)
(* by their constructors (AVAILABLE, no due date, empty list) and then     *)
(* handed to the library, any number of times.                             *)
(***************************************************************************)

\* Library.__init__: both dicts are empty.  No item or user object exists.
LibInit ==
    /\ item_id = [o \in LibItems |-> 0]
    /\ library_card = [u \in LibUsers |-> 0]
    /\ items = [k \in ItemIds |-> 0]
    /\ users = [c \in Cards |-> 0]
    /\ userKeys = << >>
    /\ status = [o \in LibItems |-> "AVAILABLE"]
    /\ due_date = [o \in LibItems |-> "None"]
    /\ checked_out_items = [u \in LibUsers |-> << >>]

\* `x in list`.
InList(x, list) == \E n \in 1..Len(list) : list[n] = x

\* list.remove(x): the list without its first element equal to x.
ListRemove(list, x) ==
    LET n == CHOOSE m \in 1..Len(list) :
                 list[m] = x /\ \A j \in 1..(m - 1) : list[j] # x
    IN  [j \in 1..(Len(list) - 1) |-> IF j < n THEN list[j] ELSE list[j + 1]]

\* Book(...) or DVD(...): LibraryItem.__init__ sets the item_id the caller
\* gives, status AVAILABLE and no due date.
NewItem(o, k) ==
    /\ item_id[o] = 0
    /\ item_id' = [item_id EXCEPT ![o] = k]
    /\ status' = [status EXCEPT ![o] = "AVAILABLE"]
    /\ due_date' = [due_date EXCEPT ![o] = "None"]
    /\ UNCHANGED <<library_card, items, users, userKeys, checked_out_items>>
    /\ UNCHANGED <<poolVars, asyncVars, readVars, bankVars>>

\* LibraryUser(...): an empty checked_out_items; the library_card is the one
\* the caller gives or the default, the creation time in whole seconds,
\* which two users created within one second share.
NewUser(u, c) ==
    /\ library_card[u] = 0
    /\ library_card' = [library_card EXCEPT ![u] = c]
    /\ checked_out_items' = [checked_out_items EXCEPT ![u] = << >>]
    /\ UNCHANGED <<item_id, items, users, userKeys, status, due_date>>
    /\ UNCHANGED <<poolVars, asyncVars, readVars, bankVars>>

\* add_item(item): self.items[item.item_id] = item.
AddItem(o) ==
    /\ item_id[o] # 0
    /\ items' = [items EXCEPT ![item_id[o]] = o]
    /\ UNCHANGED <<item_id, library_card, users, userKeys, status, due_date,
                   checked_out_items>>
    /\ UNCHANGED <<poolVars, asyncVars, readVars, bankVars>>

\* register_user(user): self.users[user.library_card] = user.  A key that is
\* in the dict already keeps its place in the dict's order.
RegisterUser(u) ==
    /\ library_card[u] # 0
    /\ users' = [users EXCEPT ![library_card[u]] = u]
    /\ userKeys' = IF InList(library_card[u], userKeys)
                   THEN userKeys
                   ELSE Append(userKeys, library_card[u])
    /\ UNCHANGED <<item_id, library_card, items, status, due_date, checked_out_items>>
    /\ UNCHANGED <<poolVars, asyncVars, readVars, bankVars>>

\* check_out_item(item_id, user_card): False, with nothing changed, for an
\* unknown item or user or an item that is not AVAILABLE; else the item is
\* marked, dated and appended to the user's list.
CheckOutItem(k, c) ==
    /\ IF items[k] = 0 \/ users[c] = 0
       THEN UNCHANGED <<status, due_date, checked_out_items>>
       ELSE IF status[items[k]] # "AVAILABLE"
       THEN UNCHANGED <<status, due_date, checked_out_items>>
       ELSE /\ Len(checked_out_items[users[c]]) < MaxHeld
            /\ status' = [status EXCEPT ![items[k]] = "CHECKED_OUT"]
            /\ due_date' = [due_date EXCEPT ![items[k]] = "set"]
            /\ checked_out_items' =
                   [checked_out_items EXCEPT ![users[c]] = Append(@, items[k])]
    /\ UNCHANGED <<item_id, library_card, items, users, userKeys>>
    /\ UNCHANGED <<poolVars, asyncVars, readVars, bankVars>>

\* The positions in users.values() of the users whose list holds item o.
HolderPositions(o) ==
    {n \in 1..Len(userKeys) : InList(o, checked_out_items[users[userKeys[n]]])}

\* return_item(item_id): False, with nothing changed, for an unknown item or
\* one that is not CHECKED_OUT; else the item is removed from the list of
\* the first registered user that holds it (if any does) and is marked
\* AVAILABLE with no due date.
ReturnItem(k) ==
    /\ IF items[k] = 0
       THEN UNCHANGED <<status, due_date, checked_out_items>>
       ELSE IF status[items[k]] # "CHECKED_OUT"
       THEN UNCHANGED <<status, due_date, checked_out_items>>
       ELSE /\ checked_out_items' =
                   IF HolderPositions(items[k]) = {}
                   THEN checked_out_items
                   ELSE LET n == CHOOSE m \in HolderPositions(items[k]) :
                                     \A j \in HolderPositions(items[k]) : m <= j
                            u == users[userKeys[n]]
                        IN  [checked_out_items EXCEPT ![u] = ListRemove(@, items[k])]
            /\ status' = [status EXCEPT ![items[k]] = "AVAILABLE"]
            /\ due_date' = [due_date EXCEPT ![items[k]] = "None"]
    /\ UNCHANGED <<item_id, library_card, items, users, userKeys>>
    /\ UNCHANGED <<poolVars, asyncVars, readVars, bankVars>>

LibraryNext ==
    \/ \E o \in LibItems, k \in ItemIds : NewItem(o, k)
    \/ \E u \in LibUsers, c \in Cards : NewUser(u, c)
    \/ \E o \in LibItems : AddItem(o)
    \/ \E u \in LibUsers : RegisterUser(u)
    \/ \E k \in ItemIds, c \in Cards : CheckOutItem(k, c)
    \/ \E k \in ItemIds : ReturnItem(k)

(***************************************************************************)
(* bank_account.py: Bank and BankAccount.  The bank is used by one thread; *)
(* each call is one step.  Amounts are Python numbers: an integer, or the  *)
(* float nan, for which every comparison is false and every sum is nan.    *)
(* An account number outside AcctIds stands for a string the pattern of    *)
(* BankAccount.account_number rejects (and for a number nobody holds).     *)
(***************************************************************************)

Num(v) == [nan |-> FALSE, v |-> v]
NaN == [nan |-> TRUE, v |-> 0]
Zero == Num(0)

\* Python's a < b, a <= b, a > b, a + b, a - b on such numbers.
Lt(a, b) == ~a.nan /\ ~b.nan /\ a.v < b.v
Le(a, b) == ~a.nan /\ ~b.nan /\ a.v <= b.v
Gt(a, b) == ~a.nan /\ ~b.nan /\ a.v > b.v
Plus(a, b) == IF a.nan \/ b.nan THEN NaN ELSE Num(a.v + b.v)
Minus(a, b) == IF a.nan \/ b.nan THEN NaN ELSE Num(a.v - b.v)

\* The amounts a caller may pass, and the account numbers it may name.
Amounts == {Num(v) : v \in (0 - 1)..MaxAmount} \cup {NaN}
AcctNumbers == 0..NumAccounts

BankInit ==
    /\ accounts = {}
    /\ balance = [n \in AcctIds |-> Zero]
    /\ transactions = [n \in AcctIds |-> << >>]
    /\ call = [op |-> "none", raised |-> "none"]

\* The accounts' fields, as an operation finds and leaves them.
Books == [balance |-> balance, transactions |-> transactions, raised |-> "none"]

\* ValidNumber.__set__ followed by BankAccount._add_transaction: the new
\* balance is refused when it is below min_value = 0, else it is stored and
\* a Transaction with the amount and the new balance is appended.
SetBalance(b, n, newBalance, description, amount) ==
    IF Lt(newBalance, Zero)
    THEN [b EXCEPT !.raised = "Value must be at least 0"]
    ELSE [b EXCEPT !.balance[n] = newBalance,
                   !.transactions[n] = Append(@, [description |-> description,
                                                  amount |-> amount,
                                                  balance |-> newBalance])]

\* BankAccount.deposit(amount) on the account n of the books b.
deposit(b, n, amount) ==
    IF Le(amount, Zero)
    THEN [b EXCEPT !.raised = "Deposit amount must be positive"]
    ELSE SetBalance(b, n, Plus(b.balance[n], amount), "Deposit", amount)

\* BankAccount.withdraw(amount) on the account n of the books b.
withdraw(b, n, amount) ==
    IF Le(amount, Zero)
    THEN [b EXCEPT !.raised = "Withdrawal amount must be positive"]
    ELSE IF Gt(amount, b.balance[n])
    THEN [b EXCEPT !.raised = "Insufficient funds"]
    ELSE SetBalance(b, n, Minus(b.balance[n], amount), "Withdrawal", Minus(Zero, amount))

\* Bank.transfer(from_account, to_account, amount): both get_account calls,
\* then source.withdraw(amount), then destination.deposit(amount); an
\* exception ends the call where it is raised.
transfer(b, from_account, to_account, amount) ==
    IF from_account \notin accounts \/ to_account \notin accounts
    THEN [b EXCEPT !.raised = "Account not found"]
    ELSE LET w == withdraw(b, from_account, amount)
         IN  IF w.raised # "none" THEN w ELSE deposit(w, to_account, amount)

\* The model follows the books while they stay within its bounds.
WithinBounds(b) ==
    \A n \in AcctIds : /\ b.balance[n].v <= MaxBalance
                       /\ Len(b.transactions[n]) <= MaxHistory

\* The call op ends with the books b.
Ends(op, b) ==
    /\ WithinBounds(b)
    /\ balance' = b.balance
    /\ transactions' = b.transactions
    /\ call' = [op |-> op, raised |-> b.raised]

\* Bank.create_account(account_number, holder_name, initial_balance):
\* BankAccount.__init__ sets the number and the name through ValidString,
\* then the balance through ValidNumber, and records the initial deposit.
CreateAccount(n, nameOk, initial) ==
    /\ IF n \in accounts
       THEN /\ Ends("create_account", [Books EXCEPT !.raised = "Account number already exists"])
            /\ UNCHANGED accounts
       ELSE IF n \notin AcctIds \/ ~nameOk
       THEN /\ Ends("create_account", [Books EXCEPT !.raised = "String does not match required pattern"])
            /\ UNCHANGED accounts
       ELSE LET b == SetBalance([Books EXCEPT !.transactions[n] = << >>], n, initial,
                                "Initial deposit", initial)
            IN  IF b.raised # "none"
                THEN Ends("create_account", [Books EXCEPT !.raised = b.raised]) /\ UNCHANGED accounts
                ELSE Ends("create_account", b) /\ accounts' = accounts \cup {n}
    /\ UNCHANGED <<poolVars, asyncVars, readVars, libVars>>

\* account.deposit(amount) on an account of the bank.
Deposit(n, amount) ==
    /\ n \in accounts
    /\ Ends("deposit", deposit(Books, n, amount))
    /\ UNCHANGED accounts
    /\ UNCHANGED <<poolVars, asyncVars, readVars, libVars>>

\* account.withdraw(amount) on an account of the bank.
Withdraw(n, amount) ==
    /\ n \in accounts
    /\ Ends("withdraw", withdraw(Books, n, amount))
    /\ UNCHANGED accounts
    /\ UNCHANGED <<poolVars, asyncVars, readVars, libVars>>

\* bank.transfer(from_account, to_account, amount).
Transfer(from_account, to_account, amount) ==
    /\ Ends("transfer", transfer(Books, from_account, to_account, amount))
    /\ UNCHANGED accounts
    /\ UNCHANGED <<poolVars, asyncVars, readVars, libVars>>

BankNext ==
    \/ \E n \in AcctNumbers, nameOk \in BOOLEAN, initial \in Amounts :
           CreateAccount(n, nameOk, initial)
    \/ \E n \in AcctIds, amount \in Amounts : Deposit(n, amount)
    \/ \E n \in AcctIds, amount \in Amounts : Withdraw(n, amount)
    \/ \E f \in AcctNumbers, t \in AcctNumbers, amount \in Amounts : Transfer(f, t, amount)

Init == PoolInit /\ AsyncInit /\ ReadInit /\ LibInit /\ BankInit

Next ==
    \/ Client
    \/ \E w \in Workers : WorkerStep(w)

Spec == Init /\ [][Next]_vars

AsyncNext ==
    \/ Supervisor
    \/ MainTask
    \/ Children
    \/ Background
    \/ EventLoop

SpecAsync == Init /\ [][AsyncNext]_vars

\* The pool with a thread that reads the counter while the workers run.
ReaderNext ==
    \/ Client
    \/ \E w \in Workers : WorkerStep(w)
    \/ CounterRead

SpecReader == Init /\ [][ReaderNext]_vars

SpecLibrary == Init /\ [][LibraryNext]_vars

SpecBank == Init /\ [][BankNext]_vars

\* Threads are scheduled by the operating system: while some worker thread
\* can take a step, a worker thread eventually takes one.
FairSpec == Spec /\ WF_vars(\E w \in Workers : WorkerStep(w))

(***************************************************************************)
(* Properties of the worker pool.                                          *)
(***************************************************************************)

AllStopped == \A w \in Workers : ~running[w]
AllJoined == joined = Workers

\* C1: once await_completion() (task_queue.join()) has returned, stop() has
\* been called on every worker and join() has returned for every worker, the
\* counter equals the number of tasks enqueued and every enqueued task has
\* its result set.
C1_PoolPostCondition ==
    (awaitState = "returned" /\ AllStopped /\ AllJoined)
        => /\ value = nPut
           /\ \A t \in 1..nPut : result[t] # NoResult

\* Both tasks were processed, by different workers, and the pool was shut down.
C1_Witness ==
    /\ awaitState = "returned" /\ AllStopped /\ AllJoined
    /\ nPut >= 2
    /\ result[1] # NoResult /\ result[2] # NoResult /\ result[1] # result[2]

\* C2: increment() loses no update: the counter value is exactly the number
\* of increment() calls that have completed, under every interleaving.
C2_NoLostUpdate == value = SumTo(incCnt, MaxTasks)

\* Two workers have each completed an increment.
C2_Witness ==
    /\ value >= 2
    /\ incCnt[1] = 1 /\ incCnt[2] = 1
    /\ result[1] # result[2]

\* C3: the unfinished count equals tasks enqueued minus task_done calls, is
\* never negative, and a caller blocked in join() was released only at a
\* count of zero.
C3_UnfinishedCount ==
    /\ unfinished = nPut - SumTo(doneCnt, MaxTasks)
    /\ unfinished >= 0
    /\ awaitState = "returned" => releasedAt = 0

\* A waiter was released after two tasks had been enqueued and marked done.
C3_Witness ==
    /\ awaitState = "returned"
    /\ nPut >= 2
    /\ SumTo(doneCnt, MaxTasks) = nPut

Holds(w, t) == held[w] = t /\ wpc[w] \in {"process", "task_done", "load", "store"}

\* C4: every task is dequeued by at most one worker: no two workers hold the
\* same task, and no task is processed, marked done or counted twice.
C4_ExclusiveOwnership ==
    /\ \A t \in TaskIds :
         /\ Cardinality(takers[t]) <= 1
         /\ procCnt[t] <= 1 /\ doneCnt[t] <= 1 /\ incCnt[t] <= 1
    /\ \A w, v \in Workers : \A t \in TaskIds :
         (Holds(w, t) /\ Holds(v, t)) => w = v

\* Two workers hold a task each at the same time.
C4_Witness ==
    \E w, v \in Workers :
        /\ w # v
        /\ wpc[w] = "process" /\ wpc[v] = "process"
        /\ held[w] # 0 /\ held[v] # 0

\* C5: a worker in which the processing of a task raised stays in its loop
\* (the exception is caught for that task only).
C5_FailureIsLocal == \A w \in Workers : raisedIn[w] => wpc[w] # "dead"

\* C6: once stop() has been called on every (started) worker, every worker
\* ends its loop, having begun at most one more poll of the queue, whatever
\* the queue still holds.
C6_ShutdownTerminates ==
    /\ (AllStopped /\ \A w \in Workers : wpc[w] # "init")
           ~> (\A w \in Workers : Terminated(w))
    /\ [](\A w \in Workers : pollsAfterStop[w] <= 1)

\* Every worker was stopped, left its loop on the flag and was joined while
\* a task was still in the queue.
C6_Witness ==
    /\ AllStopped /\ AllJoined
    /\ \A w \in Workers : wpc[w] = "exited"
    /\ queue # << >>

\* C7: a worker whose poll came back empty while its running flag was true
\* stays alive and keeps polling.
C7_EmptyPollKeepsPolling == \A w \in Workers : polledEmpty[w] => wpc[w] # "dead"

(***************************************************************************)
(* Properties of the fetch pipeline and of the deadline supervisor.        *)
(***************************************************************************)

\* C8: fetch_all_urls returns exactly one ApiResult per input url whatever
\* mix of requests succeeds and fails, and no request's failure escapes
\* fetch_url or makes fetch_all_urls raise.
C8_OneResultPerRequest ==
    /\ fetchAll = "returned" =>
          /\ Len(results) = NumUrls
          /\ \A i \in Urls : results[i] # NoApiResult
    /\ fetchAll # "raised"
    /\ \A i \in Urls : fpc[i] # "failed"

\* fetch_all_urls returned with a failed first request and a successful
\* second one.
C8_Witness ==
    /\ fetchAll = "returned"
    /\ results[1].error
    /\ ~results[2].error

\* C9: when main() has finished (before the deadline released wait_for), the
\* run ends Completed and returns, and at that point the background task
\* has been asked to cancel and has ended cancelled.
C9_CompletedCancelsBackground ==
    (SupEnded /\ mainpc = "done")
        => /\ outcome = "Completed"
           /\ suppc = "returned"
           /\ bgCancelReq
           /\ bgpc = "cancelled"

\* A completed run whose background task had run before it was cancelled.
C9_Witness ==
    /\ suppc = "returned"
    /\ outcome = "Completed"
    /\ mainpc = "done"
    /\ bgTicks >= 1
    /\ bgpc = "cancelled"

\* C10: when the deadline passes with main() unfinished (and the supervisor
\* is not itself cancelled), the run ends TimedOut and returns with both
\* main() and the background task asked to cancel and ended cancelled.
C10_TimedOutCancelsBoth ==
    (SupEnded /\ deadlinePassed /\ ~extCancelled)
        => /\ outcome = "TimedOut"
           /\ suppc = "returned"
           /\ mainCancelReq /\ mainpc = "cancelled"
           /\ bgCancelReq /\ bgpc = "cancelled"

\* A timed-out run whose main() was cancelled with a fetch in flight.
C10_Witness ==
    /\ suppc = "returned"
    /\ outcome = "TimedOut"
    /\ deadlinePassed /\ ~extCancelled
    /\ mainpc = "cancelled"
    /\ \E i \in Urls : fpc[i] = "cancelled"

\* C11 (as amended): when the budget is breached run_with_timeout raises no
\* timeout error to its caller; it returns, and the value it returns is None.
C11_TimeoutNotRaised ==
    (SupEnded /\ outcome = "TimedOut") => (suppc = "returned" /\ retval = "None")

\* The deadline passed with a request in flight and run_with_timeout returned.
C11_Witness ==
    /\ suppc = "returned" /\ outcome = "TimedOut" /\ retval = "None"
    /\ \E i \in Urls : fpc[i] = "cancelled"

\* C11 as stated: the value returned after a budget breach differs from the
\* value returned when the work finished.
C11_TimedOutDistinguishable ==
    (suppc = "returned" /\ outcome = "TimedOut") => retval # ReturnValue("Completed")

\* C12: when the processing of one result fails, the processing stage does
\* not fail because of it, and the processing of every other result is not
\* cut short (absent a deadline or a cancellation from outside).
C12_ProcessingFailureIsolated ==
    \A i \in Urls :
        ppc[i] = "failed" =>
            /\ mainpc # "failed"
            /\ (~deadlinePassed /\ ~extCancelled)
                  => \A j \in Urls \ {i} : ppc[j] # "cancelled"

\* C13: a run starts in Running, and when run_with_timeout has ended the run
\* is in exactly one of the terminal states Completed, TimedOut, Cancelled
\* (while it runs and has not left wait_for, it is Running).
C13_OneTerminalState ==
    /\ suppc \in {"init", "waitMain"} => outcome = "Running"
    /\ SupEnded => outcome \in {"Completed", "TimedOut", "Cancelled"}

(***************************************************************************)
(* Further properties of the worker pool.                                  *)
(***************************************************************************)

\* C14: with no task ever enqueued, a call of join() on the queue returns at
\* once: the client is never blocked in it, whether or not workers run.
C14_EmptyAwaitDoesNotBlock ==
    nPut = 0 => awaitState # "blocked"

\* join() has returned with nothing enqueued while a started worker runs.
C14_Witness ==
    /\ nPut = 0 /\ awaitState = "returned"
    /\ \E w \in Workers : wpc[w] \in {"check", "get"}

NotStarted == \A w \in Workers : wpc[w] = "init"

\* C15 (as amended): a put made while no worker has been started succeeds:
\* every task put so far is in the queue, in put order, and counted as
\* unfinished.
C15_PutBeforeStartSucceeds ==
    NotStarted => (queue = [t \in 1..nPut |-> t] /\ unfinished = nPut)

\* Two tasks were put before any worker was started.
C15_Witness ==
    NotStarted /\ nPut = 2 /\ Len(queue) = 2 /\ unfinished = 2

\* C15 as stated: while the pool has not been started every submit fails, so
\* the queue holds nothing and no task is counted.
C15_SubmitBeforeStartFails ==
    NotStarted => (queue = << >> /\ unfinished = 0)

\* C16: a read of counter.value made while increments are in flight returns
\* the counter's value of that instant, which is the number of increment()
\* calls completed by then (no partial or invented count), and the values
\* one reader gets in succession never decrease.
C16_ReadIsConsistent ==
    /\ [](lastRead = readIncs /\ lastRead <= value)
    /\ [][lastRead' >= lastRead]_vars

\* A read returned 1 while another increment was between its load and its
\* store.
C16_Witness ==
    /\ lastRead = 1 /\ value = 1
    /\ \E w \in Workers : wpc[w] = "store"

\* C19: a task is marked done only after its result was written, so once
\* join() on the queue has returned every enqueued task has its result.
C19_ResultBeforeDone ==
    /\ \A t \in TaskIds : doneCnt[t] > 0 => result[t] # NoResult
    /\ awaitState = "returned" => \A t \in 1..nPut : result[t] # NoResult

\* join() on the queue has just returned for two tasks; no worker has been
\* stopped and one is still inside increment().
C19_Witness ==
    /\ awaitState = "returned" /\ nPut = 2
    /\ \A w \in Workers : running[w]
    /\ \E w \in Workers : wpc[w] \in {"load", "store"}
    /\ result[1] # NoResult /\ result[2] # NoResult

\* The workers that have marked their task done and not yet finished the
\* increment() that follows.
BetweenDoneAndCount == {w \in Workers : wpc[w] \in {"load", "store"}}

\* C20 (as amended): the counter never exceeds the number of tasks marked
\* done; it lags it by exactly the number of workers between task_done()
\* and the end of increment(), so the two are equal once every worker has
\* ended.
C20_CounterLagsDone ==
    /\ value + Cardinality(BetweenDoneAndCount) = SumTo(doneCnt, MaxTasks)
    /\ (\A w \in Workers : Terminated(w)) => value = SumTo(doneCnt, MaxTasks)

\* join() on the queue has returned, no worker has been stopped or joined,
\* and the counter is still behind the number of tasks marked done.
C20_Witness ==
    /\ awaitState = "returned" /\ joined = {}
    /\ \A w \in Workers : running[w]
    /\ SumTo(doneCnt, MaxTasks) = 2 /\ value < 2

\* C20 as stated: in every state, and so at the instant join() on the queue
\* returns, the counter equals the number of tasks marked done.
C20_CounterEqualsDone == value = SumTo(doneCnt, MaxTasks)

(***************************************************************************)
(* Further properties of the asyncio program.                              *)
(***************************************************************************)

\* C17: the list fetch_all_urls returns is in input order: its i-th entry
\* carries the url of the i-th request, in whatever order the requests
\* completed.
C17_InputOrderPreserved ==
    fetchAll = "returned" => \A i \in Urls : results[i].url = i

\* The requests completed out of input order (the first to return was not
\* the first request) and the list was returned.
C17_Witness ==
    /\ fetchAll = "returned"
    /\ fetchOrder[1] # 1
    /\ \A i \in Urls : results[i].url = i

(***************************************************************************)
(* Properties of the Library.                                              *)
(***************************************************************************)

\* The registered users whose checked_out_items holds item o.
RegisteredHolders(o) ==
    {u \in LibUsers : /\ \E c \in Cards : users[c] = u
                      /\ InList(o, checked_out_items[u])}

\* C18: after any sequence of calls, an item of the library is CHECKED_OUT
\* if and only if it has a due date and is in the checked_out_items of
\* exactly one registered user; an AVAILABLE item has no due date and is in
\* no registered user's checked_out_items.
C18_LibraryConsistent ==
    \A k \in ItemIds :
        items[k] # 0 =>
            LET o == items[k] IN
            /\ status[o] = "CHECKED_OUT"
                  <=> (due_date[o] # "None" /\ Cardinality(RegisteredHolders(o)) = 1)
            /\ status[o] = "AVAILABLE"
                  => (due_date[o] = "None" /\ RegisteredHolders(o) = {})

(***************************************************************************)
(* Liveness and shutdown of the worker pool.                               *)
(***************************************************************************)

\* C21: with a worker started, a task enqueued and no running flag cleared,
\* the unfinished count eventually reaches zero (which releases a caller
\* blocked in join() on the queue), unless a worker is stopped first.
C21_BarrierLiveness ==
    ((\E w \in Workers : wpc[w] # "init") /\ nPut >= 1 /\ \A w \in Workers : running[w])
        ~> (unfinished = 0 \/ \E w \in Workers : ~running[w])

\* The tasks worker w has dequeued.
TakenBy(w) == {t \in TaskIds : w \in takers[t]}

\* C22: a worker that was stopped and has left run() has finished every task
\* it dequeued (result written, marked done, counted), and once all workers
\* have ended the unfinished count is not above the number of tasks still
\* in the queue.
C22_StopNotForced ==
    /\ \A w \in Workers :
         (~running[w] /\ Terminated(w)) =>
             \A t \in TakenBy(w) :
                 result[t] # NoResult /\ doneCnt[t] = 1 /\ incCnt[t] = 1
    /\ (\A w \in Workers : Terminated(w)) => unfinished <= Len(queue)

(***************************************************************************)
(* The stages of the fetch pipeline, its failures and its cancellation.    *)
(***************************************************************************)

\* C23: no process_api_result exists, let alone runs, before every
\* fetch_url of the batch has returned its result.
C23_FanInBeforeProcessing ==
    \A i \in Urls :
        ppc[i] # "none" =>
            \A j \in Urls : fpc[j] = "done" /\ fres[j] # NoApiResult

\* A processing operation runs, after requests that completed out of order.
C23_Witness ==
    /\ \E i \in Urls : ppc[i] = "sleep"
    /\ Len(fetchOrder) = NumUrls /\ fetchOrder[1] # 1

\* C24: every request that did not succeed (no 200 answer) yields a result
\* with the error marker, status 500 and the error entry, and its own url;
\* a result without the marker is produced only for a request that
\* succeeded.
C24_FailureCarriesMarker ==
    \A i \in Urls :
        fpc[i] = "done" =>
            /\ fres[i].url = i
            /\ fres[i].status # 200 => (fres[i].error /\ fres[i].status = 500)
            /\ ~fres[i].error => fres[i].status = 200

\* C25: a main() cancelled with fetches in flight has closed the session of
\* fetch_all_urls when its cancellation is acknowledged (its task has ended),
\* and in no terminal state of run_with_timeout is the session still open.
C25_SessionClosedAtEnd ==
    /\ mainpc = "cancelled" => session # "open"
    /\ SupEnded => session # "open"

\* C26: once run_with_timeout has returned after a deadline breach, no
\* fetch_url and no process_api_result that main() started is still in
\* flight (so none can complete later).
C26_TimeoutReachesFanOut ==
    (suppc = "returned" /\ outcome = "TimedOut") =>
        \A i \in Urls : ~Live(fpc[i]) /\ ~Live(ppc[i])

\* The steps the event loop takes without outside help: a ready task is
\* run, a due timer fires, a requested cancellation is delivered.  The
\* answer of a server, the end of a sleep and a cancellation of the
\* supervisor from outside are not among them: they may never come.
LoopStep ==
    \/ SupStart
    \/ SupMainDone
    \/ SupMainFailed
    \/ SupDeadline
    \/ SupMainCancelled
    \/ SupMainCancelledX
    \/ SupBgDone
    \/ MainTask
    \/ BgCancelled
    \/ \E i \in Urls : FetchCancelled(i) \/ ProcCancelled(i)

\* The loop does not stop while one of these steps is possible.
LoopProgress == WF_vars(LoopStep)

FairSpecAsync == SpecAsync /\ LoopProgress

\* C27: run_with_timeout always comes to an end, also when main() would
\* never finish and periodic_task loops forever: control eventually leaves
\* it, every requested cancellation being delivered after a finite delay.
C27_SupervisorResolves == <>SupEnded

\* A run that ends by the deadline with a request that was never answered
\* and a background task that had run at least one round.
C27_Witness ==
    /\ suppc = "returned"
    /\ outcome = "TimedOut"
    /\ \A i \in Urls : fpc[i] = "cancelled" /\ fres[i] = NoApiResult
    /\ bgpc = "cancelled"
    /\ bgTicks >= 1

\* C28: periodic_task never outlives run_with_timeout: on every way out
\* (main() completed, deadline, failure of main(), cancellation from
\* outside) it has been cancelled and has ended before control leaves.
C28_BackgroundEndsFirst ==
    SupEnded => /\ bgCancelReq
                /\ bgpc = "cancelled"
                /\ outcome \in {"Completed", "TimedOut", "Failed", "Cancelled"}

\* The supervisor was cancelled from outside while it awaited the
\* background task, after main() had failed, and has left.
C28_Witness ==
    /\ suppc = "raised"
    /\ outcome = "Failed"
    /\ extCancelled
    /\ bgpc = "cancelled"
    /\ bgTicks >= 1

\* C29: a fetch_url that was cancelled in flight yields no ApiResult, not
\* even an error one; fetch_all_urls then hands back no list and starts no
\* processing: it ends cancelled, and so does main(), which the supervisor
\* sees as a timeout or as its own cancellation.
C29_CancelledFetchHasNoResult ==
    \A i \in Urls : fcancel[i] =>
        /\ fres[i] = NoApiResult
        /\ fpc[i] \in {"new", "io", "cancelled"}
        /\ fetchAll \in {"running", "cancelled"}
        /\ results = << >>
        /\ \A j \in Urls : ppc[j] = "none"
        /\ ~Live(mainpc) => mainpc = "cancelled" /\ fetchAll = "cancelled"
        /\ outcome # "Running" => outcome \in {"TimedOut", "Cancelled"}

\* One request was answered, the other was cancelled while it waited for
\* its answer, and main() has ended.
C29_Witness ==
    /\ \E i \in Urls : fpc[i] = "cancelled" /\ fcancel[i]
    /\ \E j \in Urls : fpc[j] = "done" /\ fres[j] # NoApiResult
    /\ fetchAll = "cancelled"
    /\ mainpc = "cancelled"

\* The sum of the balances of the bank's accounts (nan once one is nan).
RECURSIVE SumOver(_, _)
SumOver(S, bal) ==
    IF S = {} THEN Zero
    ELSE LET n == CHOOSE x \in S : TRUE
         IN  Plus(bal[n], SumOver(S \ {n}, bal))

\* Python's a == b on two such numbers.
Same(a, b) == ~a.nan /\ ~b.nan /\ a.v = b.v

\* C30: Bank.transfer is all-or-nothing: a transfer that returns leaves the
\* sum of the balances as it was, a transfer that raises leaves every
\* balance and every history as it was, and whatever is called no balance
\* is negative afterwards.
C30_TransferAllOrNothing ==
    [][/\ \A n \in accounts' : ~Lt(balance'[n], Zero)
       /\ (call'.op = "transfer" /\ call'.raised = "none")
              => Same(SumOver(accounts', balance'), SumOver(accounts, balance))
       /\ (call'.op = "transfer" /\ call'.raised # "none")
              => UNCHANGED <<accounts, balance, transactions>>]_bankVars

====
